---- MODULE Spec2Model ----
(***************************************************************************)
(* Model of holopy/inference/noise_model.py: NoiseModel and AlphaModel.    *)
(* A state holds the constructed model instances, the list objects their   *)
(* constraints attributes are bound to, and the record of the last call    *)
(* made on an instance (its arguments, what it returned or raised, and the *)
(* ordered trace of the collaborator calls it made).                       *)
(* Log-probabilities are fixed-point numbers, in units of 1/Scale.         *)
(***************************************************************************)
EXTENDS Integers, Sequences, FiniteSets, TLC

MaxModels == 2
MaxConstraints == 2
MaxVal == 1
MaxData == 2

Scale == 1000
Log2Pi == 1838

(***************************************************************************)
(* Python values: floats (finite, -inf, inf, nan) and strings.             *)
(***************************************************************************)
Fin(x) == [k |-> "fin", n |-> x, s |-> ""]
NegInf == [k |-> "-inf", n |-> 0, s |-> ""]
PosInf == [k |-> "inf", n |-> 0, s |-> ""]
NaN == [k |-> "nan", n |-> 0, s |-> ""]
Str(x) == [k |-> "str", n |-> 0, s |-> x]

IsNum(a) == a.k # "str"

ExtNeg(a) ==
  CASE a.k = "fin" -> Fin(0 - a.n)
    [] a.k = "-inf" -> PosInf
    [] a.k = "inf" -> NegInf
    [] OTHER -> NaN

ExtAdd(a, b) ==
  CASE a.k = "nan" \/ b.k = "nan" -> NaN
    [] a.k = "fin" /\ b.k = "fin" -> Fin(a.n + b.n)
    [] a.k = "fin" -> b
    [] b.k = "fin" -> a
    [] a.k = b.k -> a
    [] OTHER -> NaN

ExtSub(a, b) == ExtAdd(a, ExtNeg(b))

\* c * a for an integer c >= 0
ExtScale(c, a) ==
  CASE a.k = "fin" -> Fin(c * a.n)
    [] a.k = "nan" -> NaN
    [] c = 0 -> NaN
    [] OTHER -> a

ExtSquare(a) ==
  CASE a.k = "fin" -> Fin(a.n * a.n)
    [] a.k = "nan" -> NaN
    [] OTHER -> PosInf

\* a / d for a >= 0 in whole units and an integer d >= 0; the quotient is in 1/Scale
ExtDiv(a, d) ==
  CASE a.k = "nan" -> NaN
    [] a.k = "fin" /\ d = 0 /\ a.n = 0 -> NaN
    [] a.k = "fin" /\ d = 0 -> PosInf
    [] a.k = "fin" -> Fin((a.n * Scale) \div d)
    [] OTHER -> a

\* np.log of a non-negative integer, in 1/Scale
NpLog(x) ==
  CASE x = 0 -> NegInf
    [] x = 1 -> Fin(0)
    [] x = 2 -> Fin(693)
    [] x = 3 -> Fin(1099)
    [] OTHER -> Fin(1386)

RECURSIVE PySum(_)
PySum(xs) == IF xs = <<>> THEN Fin(0)
             ELSE ExtAdd(PySum(SubSeq(xs, 1, Len(xs) - 1)), xs[Len(xs)])

Min(a, b) == IF a < b THEN a ELSE b

(***************************************************************************)
(* Dicts are insertion-ordered sequences of items with distinct keys.      *)
(***************************************************************************)
Item(key, val) == [key |-> key, val |-> val]
Keys(d) == {d[i].key : i \in 1..Len(d)}
Lookup(d, key) == d[CHOOSE i \in 1..Len(d) : d[i].key = key].val
Without(d, key) == SelectSeq(d, LAMBDA it : it.key # key)

\* par_vals: a name-keyed dict or a positional sequence (items with key "")
IsDict(pv) == pv.isdict
\* what iterating par_vals yields: the keys of a dict, the elements of a sequence
Iterate(pv) == [i \in 1..Len(pv.items) |->
                 IF pv.isdict THEN Str(pv.items[i].key) ELSE pv.items[i].val]

None == [k |-> "none", n |-> 0, s |-> ""]

(***************************************************************************)
(* Results of a call and the events a call leaves in its trace.            *)
(***************************************************************************)
Ret(v) == [tag |-> "ret", val |-> v, isarr |-> FALSE, arr |-> <<>>, exc |-> ""]
RetArr(a) == [tag |-> "ret", val |-> None, isarr |-> TRUE, arr |-> a, exc |-> ""]
Raise(e) == [tag |-> "raise", val |-> None, isarr |-> FALSE, arr |-> <<>>, exc |-> e]
NoPixels == [given |-> FALSE, idx |-> {}]
Pixels(S) == [given |-> TRUE, idx |-> S]
NoParVals == [isdict |-> FALSE, items |-> <<>>]

Ev(ev, idx, name, val, map, pv, dat, pix) ==
  [ev |-> ev, idx |-> idx, name |-> name, val |-> val, map |-> map, pv |-> pv,
   dat |-> dat, pix |-> pix]
EvLnpriorCall(pv) == Ev("lnprior", 0, "", None, <<>>, pv, <<>>, NoPixels)
EvCheck(i, map) == Ev("check", i, "", None, map, NoParVals, <<>>, NoPixels)
EvLnprob(name, v) == Ev("lnprob", 0, name, v, <<>>, NoParVals, <<>>, NoPixels)
EvSubset(dat, pix) == Ev("make_subset_data", 0, "", None, <<>>, NoParVals, dat, pix)
EvLnlikeCall(pv, dat) == Ev("lnlike", 0, "", None, <<>>, pv, dat, NoPixels)
EvLnlike(map, dat) == Ev("_lnlike", 0, "", None, map, NoParVals, dat, NoPixels)
EvForward(map, dat, alpha) == Ev("_forward", 0, "", alpha, map, NoParVals, dat, NoPixels)
EvOptics(map, dat) == Ev("_optics_scatterer", 0, "", None, map, NoParVals, dat, NoPixels)
EvSolver(name, scat, scaling, dat) == Ev(name, 0, "", scaling, scat, NoParVals, dat, NoPixels)

Run(res, trace) == [res |-> res, trace |-> trace]

(***************************************************************************)
(* Collaborators of the module: parameters, constraints, scatterer,        *)
(* solver, data subsetting.                                                *)
(***************************************************************************)
\* the ordered parameter list after construction: the scatterer's parameter,
\* then noise_sd (NoiseModel.__init__), then alpha (AlphaModel.__init__)
Parameters(m) == IF m.cls = "AlphaModel" THEN <<"r", "noise_sd", "alpha">>
                 ELSE <<"r", "noise_sd">>

\* Parameter.lnprob: the prior log-density of each parameter, in 1/Scale
LnProb(name, v) ==
  CASE name = "r" -> IF v.n = 0 THEN NegInf ELSE Fin(0 - 100 * v.n)
    [] name = "noise_sd" -> Fin(0 - 10 * v.n - 1)
    [] OTHER -> Fin(0 - v.n - 3)

\* Scatterer.make_from: the concrete scatterer is the mapping it was made from
make_from(map) == map

\* Constraint.check: a predicate over the scatterer; "ne" requires r != v
\* and "eq" requires r == v (Python compares a string and a number unequal)
Constraints == {[kind |-> "ne", v |-> 0], [kind |-> "eq", v |-> 1]}
Check(c, scat) ==
  LET r == IF "r" \in Keys(scat) THEN Lookup(scat, "r") ELSE Fin(1)
  IN IF c.kind = "ne" THEN r # Fin(c.v) ELSE r = Fin(c.v)

\* make_subset_data: the pixels of data at the given indices, in order
make_subset_data(data, idx) ==
  LET F[i \in 0..Len(data)] ==
        IF i = 0 THEN <<>>
        ELSE IF i \in idx THEN Append(F[i - 1], data[i]) ELSE F[i - 1]
  IN F[Len(data)]

\* BaseModel.get_par: the value in pars if present, else the fallback
get_par(name, pars, fallback) ==
  IF name \in Keys(pars) THEN Lookup(pars, name) ELSE fallback

\* noise level attached to the data as metadata
DataNoiseSd == Fin(1)
\* alpha registered at construction (AlphaModel.__init__ default alpha=1)
DefaultAlpha == Fin(1)

\* outcomes of one forward evaluation: of _optics_scatterer, then of the solver
Envs == {"ok", "optics:InvalidScatterer", "MultisphereFailure", "InvalidScatterer",
         "RuntimeError"}

\* calc_holo / calc_field: one predicted value per pixel of the schema
Solve(env, scat, scaling, schema) ==
  CASE env \in {"MultisphereFailure", "InvalidScatterer", "RuntimeError"} -> Raise(env)
    [] ~IsNum(scaling) \/ ~IsNum(get_par("r", scat, Fin(1))) -> Raise("TypeError")
    [] OTHER -> RetArr([i \in 1..Len(schema) |-> scaling.n * get_par("r", scat, Fin(1)).n])

(***************************************************************************)
(* NoiseModel                                                              *)
(***************************************************************************)
\* a _pack that pairs the parameters with the values in reverse
_pack_Reversed(m, vals) ==
  LET it == Iterate(vals)
      n == Min(Len(Parameters(m)), Len(it))
  IN [i \in 1..n |-> Item(Parameters(m)[i], it[n + 1 - i])]

\* {par.name: val for par, val in zip(self.parameters, vals)}
_pack(m, vals) ==
  LET it == Iterate(vals)
  IN [i \in 1..Min(Len(Parameters(m)), Len(it)) |-> Item(Parameters(m)[i], it[i])]

\* a loop that evaluates every constraint before it reports a failure
RECURSIVE CheckLoop_NoShortCircuit(_, _, _)
CheckLoop_NoShortCircuit(cons, packed, i) ==
  IF i > Len(cons) THEN [failed |-> FALSE, trace |-> <<>>]
  ELSE LET rest == CheckLoop_NoShortCircuit(cons, packed, i + 1)
       IN [failed |-> rest.failed \/ ~Check(cons[i], make_from(packed)),
           trace |-> <<EvCheck(i, packed)>> \o rest.trace]

\* the for loop over self.constraints, from the i-th constraint on
RECURSIVE CheckLoop(_, _, _)
CheckLoop(cons, packed, i) ==
  IF i > Len(cons) THEN [failed |-> FALSE, trace |-> <<>>]
  ELSE IF ~Check(cons[i], make_from(packed))
       THEN [failed |-> TRUE, trace |-> <<EvCheck(i, packed)>>]
       ELSE LET rest == CheckLoop(cons, packed, i + 1)
            IN [failed |-> rest.failed, trace |-> <<EvCheck(i, packed)>> \o rest.trace]

lnprior(m, cons, par_vals) ==
  LET pars == Parameters(m)
      loop == CheckLoop(cons, _pack(m, par_vals), 1)
      n == IF IsDict(par_vals) THEN Len(pars) ELSE Min(Len(pars), Len(par_vals.items))
      missing == IF IsDict(par_vals)
                 THEN {i \in 1..n : pars[i] \notin Keys(par_vals.items)} ELSE {}
      upto == IF missing = {} THEN n
              ELSE (CHOOSE i \in missing : \A j \in missing : i <= j) - 1
      val(i) == IF IsDict(par_vals) THEN Lookup(par_vals.items, pars[i])
                ELSE par_vals.items[i].val
      probs == [i \in 1..upto |-> LnProb(pars[i], val(i))]
      evs == [i \in 1..upto |-> EvLnprob(pars[i], val(i))]
      head == <<EvLnpriorCall(par_vals)>> \o loop.trace
  IN IF loop.failed THEN Run(Ret(NegInf), head)
     ELSE IF missing # {} THEN Run(Raise("KeyError"), head \o evs)
     ELSE Run(Ret(PySum(probs)), head \o evs)

\* NoiseModel has no _forward of its own; AlphaModel._forward
_forward(m, pars, schema, alpha, env) ==
  IF m.cls # "AlphaModel" THEN Run(Raise("AttributeError"), <<>>)
  ELSE
  LET a == IF alpha # None THEN alpha ELSE get_par("alpha", pars, DefaultAlpha)
      rest == IF alpha # None THEN pars ELSE Without(pars, "alpha")
      scat == make_from(rest)
      head == <<EvForward(pars, schema, alpha), EvOptics(rest, schema)>>
      out == Solve(env, scat, a, schema)
  IN IF env = "optics:InvalidScatterer" THEN Run(Raise("InvalidScatterer"), head)
     ELSE IF out.tag = "raise" /\ out.exc \in {"MultisphereFailure", "InvalidScatterer"}
          THEN Run(Ret(NegInf), head \o <<EvSolver("calc_holo", scat, a, schema)>>)
          ELSE Run(out, head \o <<EvSolver("calc_holo", scat, a, schema)>>)

_fields(m, pars, schema, env) ==
  LET scat == make_from(pars)
      head == <<EvOptics(pars, schema)>>
      out == Solve(env, scat, Fin(1), schema)
  IN IF env = "optics:InvalidScatterer" THEN Run(Raise("InvalidScatterer"), head)
     ELSE IF out.tag = "raise" /\ out.exc \in {"MultisphereFailure", "InvalidScatterer"}
          THEN Run(Ret(NegInf), head \o <<EvSolver("calc_field", scat, Fin(1), schema)>>)
          ELSE Run(out, head \o <<EvSolver("calc_field", scat, Fin(1), schema)>>)

\* the Gaussian log-likelihood of lines 88-90, given noise_sd and the forward result
Gaussian(noise_sd, forward, data) ==
  LET N == Len(data)
      f(i) == IF forward.isarr THEN Fin(forward.arr[i]) ELSE forward.val
      resid == [i \in 1..N |->
                 ExtDiv(ExtSquare(ExtSub(f(i), Fin(data[i]))), 2 * noise_sd.n * noise_sd.n)]
  IN ExtSub(ExtSub(Fin((0 - N * Log2Pi) \div 2), ExtScale(N, NpLog(noise_sd.n))),
            PySum(resid))

_lnlike(m, pars, data, env) ==
  LET noise_sd == get_par("noise_sd", pars, DataNoiseSd)
      fw == _forward(m, Without(pars, "noise_sd"), data, None, env)
      head == <<EvLnlike(pars, data)>> \o fw.trace
  IN IF fw.res.tag = "raise" THEN Run(fw.res, head)
     ELSE IF ~IsNum(noise_sd) THEN Run(Raise("TypeError"), head)
     ELSE Run(Ret(Gaussian(noise_sd, fw.res, data)), head)

lnlike(m, par_vals, data, env) ==
  LET r == _lnlike(m, _pack(m, par_vals), data, env)
  IN Run(r.res, <<EvLnlikeCall(par_vals, data)>> \o r.trace)

\* an lnposterior that evaluates the likelihood before it looks at the prior
lnposterior_LikelihoodFirst(m, cons, par_vals, data, pixels, env) ==
  LET pr == lnprior(m, cons, par_vals)
      sub == IF pixels.given THEN make_subset_data(data, pixels.idx) ELSE data
      lk == lnlike(m, par_vals, sub, env)
      mid == IF pixels.given THEN <<EvSubset(data, pixels)>> ELSE <<>>
  IN IF pr.res.tag = "raise" THEN pr
     ELSE IF lk.res.tag = "raise" THEN Run(lk.res, pr.trace \o mid \o lk.trace)
     ELSE IF pr.res.val = NegInf THEN Run(pr.res, pr.trace \o mid \o lk.trace)
     ELSE Run(Ret(ExtAdd(pr.res.val, lk.res.val)), pr.trace \o mid \o lk.trace)

\* an lnposterior that returns the likelihood alone
lnposterior_DropsPrior(m, cons, par_vals, data, pixels, env) ==
  LET pr == lnprior(m, cons, par_vals)
      sub == IF pixels.given THEN make_subset_data(data, pixels.idx) ELSE data
      lk == lnlike(m, par_vals, sub, env)
      mid == IF pixels.given THEN <<EvSubset(data, pixels)>> ELSE <<>>
  IN IF pr.res.tag = "raise" THEN pr
     ELSE IF pr.res.val = NegInf THEN pr
     ELSE Run(lk.res, pr.trace \o mid \o lk.trace)

\* an lnposterior that tests "if pixels:" and so skips an empty index set
lnposterior_TruthyPixels(m, cons, par_vals, data, pixels, env) ==
  LET pr == lnprior(m, cons, par_vals)
      use == pixels.given /\ pixels.idx # {}
      sub == IF use THEN make_subset_data(data, pixels.idx) ELSE data
      lk == lnlike(m, par_vals, sub, env)
      mid == IF use THEN <<EvSubset(data, pixels)>> ELSE <<>>
  IN IF pr.res.tag = "raise" THEN pr
     ELSE IF pr.res.val = NegInf THEN pr
     ELSE IF lk.res.tag = "raise" THEN Run(lk.res, pr.trace \o mid \o lk.trace)
     ELSE Run(Ret(ExtAdd(pr.res.val, lk.res.val)), pr.trace \o mid \o lk.trace)

lnposterior(m, cons, par_vals, data, pixels, env) ==
  LET pr == lnprior(m, cons, par_vals)
      sub == IF pixels.given THEN make_subset_data(data, pixels.idx) ELSE data
      lk == lnlike(m, par_vals, sub, env)
      mid == IF pixels.given THEN <<EvSubset(data, pixels)>> ELSE <<>>
  IN IF pr.res.tag = "raise" THEN pr
     ELSE IF pr.res.val = NegInf THEN pr
     ELSE IF lk.res.tag = "raise" THEN Run(lk.res, pr.trace \o mid \o lk.trace)
     ELSE Run(Ret(ExtAdd(pr.res.val, lk.res.val)), pr.trace \o mid \o lk.trace)

(***************************************************************************)
(* State                                                                   *)
(***************************************************************************)
VARIABLES models, heap, call
vars == <<models, heap, call>>

\* the list objects created when the two def statements are evaluated
\* (constraints=[] on lines 36 and 96); list MaxModels-many further ones
\* are the lists callers pass explicitly
NoiseModelDefault == 0
AlphaModelDefault == 1
ArgList(i) == 1 + i
ListIds == 0..(MaxModels + 1)

SeqsUpTo(S, n) == UNION {[1..k -> S] : k \in 0..n}
ConstraintLists == SeqsUpTo(Constraints, MaxConstraints)
Values == {Fin(v) : v \in 0..MaxVal}
Datas == SeqsUpTo(0..1, MaxData)
PixelArgs(data) == {NoPixels} \cup {Pixels(S) : S \in SUBSET (1..Len(data))}
Positional(n) == {[isdict |-> FALSE, items |-> [i \in 1..n |-> Item("", v[i])]] :
                    v \in [1..n -> Values]}
Perms(n) == {f \in [1..n -> 1..n] : \A i, j \in 1..n : f[i] = f[j] => i = j}
\* dicts with one value per parameter, in any insertion order
Dicts(m) == LET ps == Parameters(m)
            IN {[isdict |-> TRUE, items |-> [i \in 1..Len(ps) |-> Item(ps[f[i]], v[i])]] :
                  f \in Perms(Len(ps)), v \in [1..Len(ps) -> Values]}
ParVals(m) == Positional(Len(Parameters(m))) \cup Dicts(m)
\* sequences of any length up to one more than the parameter count
AnyLength(m) == UNION {Positional(n) : n \in 0..(Len(Parameters(m)) + 1)}
\* the parameter mappings the internal methods are handed
Mappings(m) == {_pack(m, v) : v \in UNION {Positional(n) : n \in 0..Len(Parameters(m))}}

NoCall == [op |-> "none", m |-> 0, pv |-> NoParVals, map |-> <<>>, data |-> <<>>,
           pix |-> NoPixels, env |-> "ok", alpha |-> None, res |-> Ret(None),
           trace |-> <<>>]

ConstraintsOf(i) == heap[models[i].cons]

\* evaluation is synchronous and single-threaded: a call starts, and the
\* caller constructs or mutates, only when no call is waiting to return
Idle == call.op = "none"

Init == /\ models = <<>>
        /\ heap = [id \in ListIds |-> <<>>]
        /\ call = NoCall

\* a model already constructed with an explicit constraint list
InitEval == \E cls \in {"NoiseModel", "AlphaModel"}, cs \in ConstraintLists :
              /\ models = <<[cls |-> cls, cons |-> ArgList(1)]>>
              /\ heap = [id \in ListIds |-> IF id = ArgList(1) THEN cs ELSE <<>>]
              /\ call = NoCall

(***************************************************************************)
(* Construction                                                            *)
(***************************************************************************)
\* BaseModel.__init__ keeps the list object it is handed as self.constraints
BaseModelInit(cls, list) == [cls |-> cls, cons |-> list]

\* NoiseModel(scatterer, noise_sd): constraints is the def-time default list
NewNoiseModel ==
  /\ Idle
  /\ Len(models) < MaxModels
  /\ models' = Append(models, BaseModelInit("NoiseModel", NoiseModelDefault))
  /\ UNCHANGED <<heap, call>>

\* NoiseModel(scatterer, noise_sd, constraints=cs)
NewNoiseModelWith(cs) ==
  /\ Idle
  /\ Len(models) < MaxModels
  /\ models' = Append(models, BaseModelInit("NoiseModel", ArgList(Len(models) + 1)))
  /\ heap' = [heap EXCEPT ![ArgList(Len(models) + 1)] = cs]
  /\ UNCHANGED call

\* AlphaModel(scatterer): its own default list is passed on to NoiseModel.__init__
NewAlphaModel ==
  /\ Idle
  /\ Len(models) < MaxModels
  /\ models' = Append(models, BaseModelInit("AlphaModel", AlphaModelDefault))
  /\ UNCHANGED <<heap, call>>

NewAlphaModelWith(cs) ==
  /\ Idle
  /\ Len(models) < MaxModels
  /\ models' = Append(models, BaseModelInit("AlphaModel", ArgList(Len(models) + 1)))
  /\ heap' = [heap EXCEPT ![ArgList(Len(models) + 1)] = cs]
  /\ UNCHANGED call

\* model.constraints.append(c)
AppendConstraint(i, c) ==
  /\ Idle
  /\ Len(ConstraintsOf(i)) < MaxConstraints
  /\ heap' = [heap EXCEPT ![models[i].cons] = Append(@, c)]
  /\ UNCHANGED <<models, call>>

(***************************************************************************)
(* Calls on an instance                                                    *)
(***************************************************************************)
Call_pack(i, vals) ==
  /\ Idle
  /\ call' = [NoCall EXCEPT !.op = "_pack", !.m = i, !.pv = vals,
                            !.map = _pack(models[i], vals)]
  /\ UNCHANGED <<models, heap>>

CallLnprior(i, pv) ==
  LET r == lnprior(models[i], ConstraintsOf(i), pv)
  IN /\ Idle
     /\ call' = [NoCall EXCEPT !.op = "lnprior", !.m = i, !.pv = pv,
                               !.res = r.res, !.trace = r.trace]
     /\ UNCHANGED <<models, heap>>

CallLnlike(i, pv, data, env) ==
  LET r == lnlike(models[i], pv, data, env)
  IN /\ Idle
     /\ call' = [NoCall EXCEPT !.op = "lnlike", !.m = i, !.pv = pv, !.data = data,
                               !.env = env, !.res = r.res, !.trace = r.trace]
     /\ UNCHANGED <<models, heap>>

CallLnposterior(i, pv, data, pix, env) ==
  LET r == lnposterior(models[i], ConstraintsOf(i), pv, data, pix, env)
  IN /\ Idle
     /\ call' = [NoCall EXCEPT !.op = "lnposterior", !.m = i, !.pv = pv,
                               !.data = data, !.pix = pix, !.env = env,
                               !.res = r.res, !.trace = r.trace]
     /\ UNCHANGED <<models, heap>>

Call_lnlike(i, pars, data, env) ==
  LET r == _lnlike(models[i], pars, data, env)
  IN /\ Idle
     /\ call' = [NoCall EXCEPT !.op = "_lnlike", !.m = i, !.map = pars, !.data = data,
                               !.env = env, !.res = r.res, !.trace = r.trace]
     /\ UNCHANGED <<models, heap>>

Call_forward(i, pars, schema, alpha, env) ==
  LET r == _forward(models[i], pars, schema, alpha, env)
  IN /\ Idle
     /\ models[i].cls = "AlphaModel"
     /\ call' = [NoCall EXCEPT !.op = "_forward", !.m = i, !.map = pars,
                               !.data = schema, !.alpha = alpha, !.env = env,
                               !.res = r.res, !.trace = r.trace]
     /\ UNCHANGED <<models, heap>>

Call_fields(i, pars, schema, env) ==
  LET r == _fields(models[i], pars, schema, env)
  IN /\ Idle
     /\ call' = [NoCall EXCEPT !.op = "_fields", !.m = i, !.map = pars,
                               !.data = schema, !.env = env,
                               !.res = r.res, !.trace = r.trace]
     /\ UNCHANGED <<models, heap>>

\* the call returns: its result is handed to the caller
Return ==
  /\ ~Idle
  /\ call' = NoCall
  /\ UNCHANGED <<models, heap>>

Next ==
  \/ NewNoiseModel
  \/ NewAlphaModel
  \/ \E cs \in ConstraintLists : NewNoiseModelWith(cs)
  \/ \E cs \in ConstraintLists : NewAlphaModelWith(cs)
  \/ \E i \in 1..Len(models), c \in Constraints : AppendConstraint(i, c)
Spec == Init /\ [][Next]_vars

NextEval ==
  \/ Idle /\ \E vals \in AnyLength(models[1]) \cup Dicts(models[1]) : Call_pack(1, vals)
  \/ Idle /\ \E pv \in ParVals(models[1]) : CallLnprior(1, pv)
  \/ Idle /\ \E pv \in ParVals(models[1]), data \in Datas, env \in Envs :
               CallLnlike(1, pv, data, env)
  \/ Idle /\ \E pv \in ParVals(models[1]), data \in Datas, env \in Envs :
               \E pix \in PixelArgs(data) : CallLnposterior(1, pv, data, pix, env)
  \/ Idle /\ \E pars \in Mappings(models[1]), data \in Datas, env \in Envs :
               Call_lnlike(1, pars, data, env)
  \/ Idle /\ \E pars \in Mappings(models[1]), data \in Datas, env \in Envs :
               \E alpha \in {None} \cup Values : Call_forward(1, pars, data, alpha, env)
  \/ Idle /\ \E pars \in Mappings(models[1]), data \in Datas, env \in Envs :
               Call_fields(1, pars, data, env)
  \/ Return
SpecEval == InitEval /\ [][NextEval]_vars

(***************************************************************************)
(* Properties                                                              *)
(***************************************************************************)
TheModel == models[call.m]
TheConstraints == ConstraintsOf(call.m)
\* the value the caller supplied for the i-th registered parameter
Supplied(m, pv, i) == IF pv.isdict THEN Lookup(pv.items, Parameters(m)[i])
                      ELSE pv.items[i].val
\* the name-to-value mapping the caller's par_vals stands for
Assignment(m, pv) == [i \in 1..Len(Parameters(m)) |->
                        Item(Parameters(m)[i], Supplied(m, pv, i))]
SumOfLnProbs(m, pv) ==
  PySum([i \in 1..Len(Parameters(m)) |-> LnProb(Parameters(m)[i], Supplied(m, pv, i))])
Failing(cons, scat) == {i \in 1..Len(cons) : ~Check(cons[i], scat)}
First(S) == CHOOSE i \in S : \A j \in S : i <= j
EventsOf(kinds) == {j \in 1..Len(call.trace) : call.trace[j].ev \in kinds}
LikelihoodEvents == {"lnlike", "_lnlike", "_forward", "_optics_scatterer",
                     "calc_holo", "calc_field"}
\* what lnprior returns for the arguments of the recorded call
PriorOfCall == lnprior(TheModel, TheConstraints, call.pv).res
PriorFeasible == PriorOfCall.tag = "ret" /\ PriorOfCall.val.k = "fin"

\* C1: when a registered constraint's check fails on the scatterer that
\* lnprior materializes, make_from(_pack(par_vals)), lnprior returns -inf,
\* having evaluated the constraints in registration order up to the first
\* failing one and nothing after it: no later constraint and no lnprob.
C1_ConstraintFailureShortCircuits ==
  (call.op = "lnprior"
     /\ Failing(TheConstraints, make_from(_pack(TheModel, call.pv))) # {})
  => LET k == First(Failing(TheConstraints, make_from(_pack(TheModel, call.pv))))
     IN /\ call.res = Ret(NegInf)
        /\ Len(call.trace) = k + 1
        /\ \A j \in 1..k : call.trace[j + 1].ev = "check" /\ call.trace[j + 1].idx = j
        /\ EventsOf({"lnprob"}) = {}

C1_Witness ==
  /\ call.op = "lnprior"
  /\ Len(TheConstraints) = 2
  /\ Failing(TheConstraints, make_from(_pack(TheModel, call.pv))) = {1, 2}
  /\ call.res = Ret(NegInf)

\* C2: when lnprior is -inf, by a failed constraint or by a prior density of
\* -inf, lnposterior returns -inf and calls neither make_subset_data, lnlike,
\* _lnlike, _forward nor the solver, whatever data and pixels are.
C2_InfeasiblePriorSkipsLikelihood ==
  (call.op = "lnposterior" /\ PriorOfCall = Ret(NegInf))
  => /\ call.res = Ret(NegInf)
     /\ EventsOf(LikelihoodEvents \cup {"make_subset_data"}) = {}

C2_Witness ==
  /\ call.op = "lnposterior"
  /\ Failing(TheConstraints, make_from(_pack(TheModel, call.pv))) = {}
  /\ PriorOfCall = Ret(NegInf)
  /\ call.pix.given
  /\ call.data # <<>>
  /\ call.res = Ret(NegInf)

\* C3: with lnprior above -inf and no pixels, lnposterior returns
\* lnprior + lnlike, with lnprior evaluated once and lnlike evaluated once,
\* on the caller's data.
C3_PosteriorIsPriorPlusLikelihood ==
  (call.op = "lnposterior" /\ ~call.pix.given /\ PriorFeasible)
  => LET lk == lnlike(TheModel, call.pv, call.data, call.env).res
     IN /\ lk.tag = "ret" => call.res = Ret(ExtAdd(PriorOfCall.val, lk.val))
        /\ lk.tag = "raise" => call.res = lk
        /\ Cardinality(EventsOf({"lnprior"})) = 1
        /\ Cardinality(EventsOf({"lnlike"})) = 1
        /\ \A j \in EventsOf({"lnlike"}) : call.trace[j].dat = call.data

C3_Witness ==
  /\ call.op = "lnposterior"
  /\ ~call.pix.given
  /\ PriorFeasible
  /\ call.env = "ok"
  /\ call.data # <<>>
  /\ call.res.tag = "ret"
  /\ call.res.val.k = "fin"
  /\ call.res.val # PriorOfCall.val

\* C4: when every constraint holds on the scatterer of the supplied values,
\* lnprior is the sum of each parameter's lnprob at its supplied value, for a
\* dict and for a sequence, and a dict and a sequence carrying the same
\* values give the same result, also on models with constraints.
C4_PriorIsSumOfLnProbs ==
  (call.op = "lnprior"
     /\ Failing(TheConstraints, make_from(Assignment(TheModel, call.pv))) = {})
  => /\ call.res = Ret(SumOfLnProbs(TheModel, call.pv))
     /\ \A seq \in Positional(Len(Parameters(TheModel))) :
          Assignment(TheModel, seq) = Assignment(TheModel, call.pv)
          => call.res = lnprior(TheModel, TheConstraints, seq).res

\* C5: with pixels supplied (an empty index set included) and lnprior not
\* -inf, make_subset_data is called once, with the caller's data and the given
\* pixels, and the likelihood sees only the subset it returned; without
\* pixels make_subset_data is not called and the likelihood sees the
\* caller's data.
C5_PixelsSubsetTheData ==
  (call.op = "lnposterior" /\ PriorFeasible)
  => /\ call.pix.given =>
          /\ Cardinality(EventsOf({"make_subset_data"})) = 1
          /\ \A j \in EventsOf({"make_subset_data"}) :
               call.trace[j].dat = call.data /\ call.trace[j].pix = call.pix
          /\ \A j \in EventsOf(LikelihoodEvents) :
               call.trace[j].dat = make_subset_data(call.data, call.pix.idx)
     /\ ~call.pix.given =>
          /\ EventsOf({"make_subset_data"}) = {}
          /\ \A j \in EventsOf(LikelihoodEvents) : call.trace[j].dat = call.data
     /\ EventsOf({"lnlike"}) # {}

C5_Witness ==
  /\ call.op = "lnposterior"
  /\ PriorFeasible
  /\ call.pix = Pixels({})
  /\ call.data # <<>>
  /\ EventsOf({"make_subset_data"}) # {}
  /\ \E j \in EventsOf({"_lnlike"}) : call.trace[j].dat = <<>>

SolverFailed == call.env \in {"MultisphereFailure", "InvalidScatterer"}

\* C6: when the solver signals MultisphereFailure or InvalidScatterer,
\* _fields and _forward return -inf, and _lnlike over that forward result
\* returns -inf; any other exception of the solver reaches the caller.
C6_SolverFailureBecomesNegInf ==
  /\ (call.op \in {"_fields", "_forward"} /\ SolverFailed) => call.res = Ret(NegInf)
  /\ (call.op = "_lnlike" /\ TheModel.cls = "AlphaModel" /\ SolverFailed)
       => call.res = Ret(NegInf)
  /\ (call.op \in {"_fields", "_forward", "_lnlike"} /\ call.env = "RuntimeError"
        /\ EventsOf({"calc_holo", "calc_field"}) # {})
       => call.res = Raise("RuntimeError")

\* C7: for a sequence vals as long as the parameter list, _pack(vals) has
\* exactly one entry per registered parameter, and the entry of the i-th
\* parameter's name is vals[i].
C7_PackRoundTrip ==
  (call.op = "_pack" /\ ~call.pv.isdict
     /\ Len(call.pv.items) = Len(Parameters(TheModel)))
  => /\ Len(call.map) = Len(Parameters(TheModel))
     /\ Keys(call.map) = {Parameters(TheModel)[i] : i \in 1..Len(Parameters(TheModel))}
     /\ Cardinality(Keys(call.map)) = Len(call.map)
     /\ \A i \in 1..Len(Parameters(TheModel)) :
          Lookup(call.map, Parameters(TheModel)[i]) = call.pv.items[i].val

C7_Witness ==
  /\ call.op = "_pack"
  /\ ~call.pv.isdict
  /\ TheModel.cls = "AlphaModel"
  /\ Len(call.pv.items) = 3
  /\ call.pv.items[1].val # call.pv.items[2].val
  /\ call.pv.items[2].val # call.pv.items[3].val
  /\ Len(call.map) = 3

\* C8: an instance constructed without a constraints argument has its own
\* empty constraint list: adding to one instance's list leaves the list of
\* every other such instance unchanged, and an instance constructed later
\* without the argument starts with an empty list.
C8_DefaultConstraintsAreIndependent ==
  [][/\ \A i \in 1..Len(models) :
          (\E c \in Constraints : AppendConstraint(i, c))
          => \A j \in (1..Len(models)) \ {i} :
               models[j].cons \in {NoiseModelDefault, AlphaModelDefault}
               => heap'[models[j].cons] = heap[models[j].cons]
     /\ (NewNoiseModel \/ NewAlphaModel)
          => heap'[models'[Len(models')].cons] = <<>>]_vars

ForwardFailed == call.env \in {"optics:InvalidScatterer", "MultisphereFailure",
                               "InvalidScatterer"}

\* C9: on an AlphaModel with lnprior above -inf, an InvalidScatterer or
\* MultisphereFailure signalled at any step of the forward evaluation makes
\* lnlike and lnposterior return -inf; no exception reaches the caller.
C9_LikelihoodIsTotal ==
  (call.op \in {"lnlike", "lnposterior"} /\ TheModel.cls = "AlphaModel"
     /\ PriorFeasible /\ ForwardFailed)
  => call.res = Ret(NegInf)

\* C10: within one lnprior, lnlike or lnposterior call, the mapping handed to
\* make_from for each constraint check and the mapping handed to _lnlike
\* give every registered parameter the value the caller supplied for it, for
\* a sequence and for a dict.
C10_OneAssignmentPerCall ==
  (call.op \in {"lnprior", "lnlike", "lnposterior"})
  => \A j \in EventsOf({"check", "_lnlike"}) :
       \A i \in 1..Len(Parameters(TheModel)) :
         /\ Parameters(TheModel)[i] \in Keys(call.trace[j].map)
         /\ Lookup(call.trace[j].map, Parameters(TheModel)[i])
              = Supplied(TheModel, call.pv, i)

====
